---------------------------- MODULE Spec2Model ----------------------------
(***************************************************************************)
(* Depreciation schedule engine of depreciation.py.                        *)
(*                                                                         *)
(* A caller invokes one method calculator (or the dispatcher               *)
(* generate_depreciation_schedule), receives a schedule (a list of year    *)
(* records, Python dicts) or an exception, and may then run a chain of     *)
(* post-processors that mutate that schedule in place.                     *)
(*                                                                         *)
(* Numbers are exact rationals [n, d] in lowest terms: +, -, *, / and the  *)
(* comparisons are those of Python's numeric operators on exact values     *)
(* (what the code computes when handed fractions.Fraction).  The rounding  *)
(* of binary floating point is not part of this model, so an equality      *)
(* below is an equality of the exact values.                               *)
(*                                                                         *)
(* A year record is a function from the dict's keys to values; a key that  *)
(* the code has not set is absent from its DOMAIN.  None is <<>> and a     *)
(* supplied optional argument x is <<x>>.                                  *)
(***************************************************************************)
EXTENDS Integers, Sequences, FiniteSets, TLC

----------------------------------------------------------------------------
(* Bounds of the input space *)

MaxLife == 5         \* useful_life ranges over 0..MaxLife
MaxPeriods == 2      \* units_used has at most MaxPeriods entries
MaxTable == 2        \* non-default MACRS tables have at most MaxTable entries
MaxPost == 2         \* post-processors applied to one schedule

----------------------------------------------------------------------------
(* Exact arithmetic *)

Abs(x) == IF x < 0 THEN -x ELSE x

RECURSIVE GCD(_, _)
GCD(a, b) == IF b = 0 THEN a ELSE GCD(b, a % b)

\* The number n/d (d > 0) in lowest terms.
Norm(n, d) ==
    LET g == GCD(Abs(n), d) IN [n |-> n \div g, d |-> d \div g]

R(i) == [n |-> i, d |-> 1]

Zero == R(0)

RAdd(a, b) ==
    LET g == GCD(a.d, b.d)
    IN  Norm(a.n * (b.d \div g) + b.n * (a.d \div g), (a.d \div g) * b.d)

RNeg(a) == [n |-> -a.n, d |-> a.d]

RSub(a, b) == RAdd(a, RNeg(b))

RMul(a, b) ==
    LET g1 == GCD(Abs(a.n), b.d)
        g2 == GCD(Abs(b.n), a.d)
    IN  Norm((a.n \div g1) * (b.n \div g2), (a.d \div g2) * (b.d \div g1))

\* a / b for b # 0; the callers raise ZeroDivisionError when b = 0.
RDiv(a, b) ==
    RMul(a, IF b.n > 0 THEN [n |-> b.d, d |-> b.n] ELSE [n |-> -b.d, d |-> -b.n])

RLt(a, b) == RSub(a, b).n < 0

RLe(a, b) == RSub(a, b).n <= 0

\* Python's max(a, b): b only when b > a.
RMax(a, b) == IF RLt(a, b) THEN b ELSE a

----------------------------------------------------------------------------
(* Optional values, exceptions, results of a call *)

None == <<>>

Some(x) == <<x>>

\* Python truthiness of an optional number: None and 0 are false.
TruthyNum(o) == o # None /\ o[1] # Zero

\* Python truthiness of an optional list: None and [] are false.
TruthyList(o) == o # None /\ o[1] # <<>>

ValidMethods == {"straight_line", "declining_balance", "units_of_production"}

NoExc == [type |-> "None", names |-> {}]

ZeroDivisionError == [type |-> "ZeroDivisionError", names |-> {}]

IndexError == [type |-> "IndexError", names |-> {}]

\* ValueError("Total units and units used must be provided ...")
InvalidInput == [type |-> "ValueError: must be provided", names |-> {}]

\* ValueError("Invalid depreciation method. Choose 'straight_line', ...")
InvalidMethod == [type |-> "ValueError: Invalid depreciation method", names |-> ValidMethods]

Return(v) == [exc |-> NoExc, ret |-> Some(v)]

Raise(e) == [exc |-> e, ret |-> None]

----------------------------------------------------------------------------
(* Year records *)

Record(year, expense, accumulated, book) ==
    [Year |-> year,
     DepreciationExpense |-> expense,
     AccumulatedDepreciation |-> accumulated,
     BookValue |-> book]


----------------------------------------------------------------------------
(* Straight-line calculator *)

straight_line_depreciation(cost, residual_value, useful_life) ==
    IF useful_life = 0
    THEN Raise(ZeroDivisionError)
    ELSE Return(RDiv(RSub(cost, residual_value), R(useful_life)))

\* A loop that takes the book value before it adds the year's depreciation.
RECURSIVE sl_loop_stale_book_value(_, _, _, _, _, _)
sl_loop_stale_book_value(year, useful_life, cost, annual_depreciation, accumulated_depreciation, schedule) ==
    IF year > useful_life
    THEN schedule
    ELSE LET book_value == RSub(cost, accumulated_depreciation)
             acc == RAdd(accumulated_depreciation, annual_depreciation)
         IN  sl_loop_stale_book_value(year + 1, useful_life, cost, annual_depreciation, acc,
                     Append(schedule, Record(year, annual_depreciation, acc, book_value)))

\* for year in range(1, useful_life + 1): ... of generate_straight_line_schedule
RECURSIVE sl_loop(_, _, _, _, _, _)
sl_loop(year, useful_life, cost, annual_depreciation, accumulated_depreciation, schedule) ==
    IF year > useful_life
    THEN schedule
    ELSE LET acc == RAdd(accumulated_depreciation, annual_depreciation)
             book_value == RSub(cost, acc)
         IN  sl_loop(year + 1, useful_life, cost, annual_depreciation, acc,
                     Append(schedule, Record(year, annual_depreciation, acc, book_value)))

generate_straight_line_schedule(cost, residual_value, useful_life) ==
    LET annual == straight_line_depreciation(cost, residual_value, useful_life)
    IN  IF annual.exc # NoExc
        THEN Raise(annual.exc)
        ELSE Return(sl_loop(1, useful_life, cost, annual.ret[1], Zero, <<>>))

----------------------------------------------------------------------------
(* Declining-balance calculator *)

\* A declining-balance step that never clamps at the residual value.
db_expense_unclamped(book_value, residual_value, useful_life, factor) ==
    IF RLt(book_value, residual_value)
    THEN Zero
    ELSE RMul(RDiv(factor, R(useful_life)), book_value)

\* The year's expense, from the book value at the start of the year.
db_expense(book_value, residual_value, useful_life, factor) ==
    IF RLt(book_value, residual_value)
    THEN Zero
    ELSE LET depreciation_expense == RMul(RDiv(factor, R(useful_life)), book_value)
         IN  IF RLt(book_value, RAdd(depreciation_expense, residual_value))
             THEN RSub(book_value, residual_value)
             ELSE depreciation_expense

RECURSIVE db_loop(_, _, _, _, _, _, _)
db_loop(year, useful_life, cost, residual_value, factor, book_value, schedule) ==
    IF year > useful_life
    THEN schedule
    ELSE LET depreciation_expense == db_expense(book_value, residual_value, useful_life, factor)
             bv == RSub(book_value, depreciation_expense)
         IN  db_loop(year + 1, useful_life, cost, residual_value, factor, bv,
                     Append(schedule, Record(year, depreciation_expense, RSub(cost, bv), bv)))

declining_balance_depreciation(cost, residual_value, useful_life, factor) ==
    Return(db_loop(1, useful_life, cost, residual_value, factor, cost, <<>>))

----------------------------------------------------------------------------
(* Units-of-production calculator *)

\* An enumeration of units_used that stops one entry short.
RECURSIVE uop_loop_short(_, _, _, _, _, _)
uop_loop_short(year, units_used, cost, depreciation_per_unit, accumulated_depreciation, schedule) ==
    IF year >= Len(units_used)
    THEN schedule
    ELSE LET depreciation_expense == RMul(units_used[year], depreciation_per_unit)
             acc == RAdd(accumulated_depreciation, depreciation_expense)
         IN  uop_loop_short(year + 1, units_used, cost, depreciation_per_unit, acc,
                      Append(schedule, Record(year, depreciation_expense, acc, RSub(cost, acc))))

\* for year, units in enumerate(units_used, 1): ...
RECURSIVE uop_loop(_, _, _, _, _, _)
uop_loop(year, units_used, cost, depreciation_per_unit, accumulated_depreciation, schedule) ==
    IF year > Len(units_used)
    THEN schedule
    ELSE LET depreciation_expense == RMul(units_used[year], depreciation_per_unit)
             acc == RAdd(accumulated_depreciation, depreciation_expense)
             book_value == RSub(cost, acc)
         IN  uop_loop(year + 1, units_used, cost, depreciation_per_unit, acc,
                      Append(schedule, Record(year, depreciation_expense, acc, book_value)))

units_of_production_depreciation(cost, residual_value, total_units, units_used) ==
    IF total_units = Zero
    THEN Raise(ZeroDivisionError)
    ELSE Return(uop_loop(1, units_used, cost,
                         RDiv(RSub(cost, residual_value), total_units), Zero, <<>>))

----------------------------------------------------------------------------
(* Sum-of-years-digits calculator *)

\* sum(range(1, useful_life + 1))
RECURSIVE sum_range(_)
sum_range(useful_life) ==
    IF useful_life <= 0 THEN 0 ELSE useful_life + sum_range(useful_life - 1)

\* A fraction that counts the remaining years after this one.
syd_fraction_off_by_one(useful_life, year, total_years) ==
    RDiv(R(useful_life - year), R(total_years))

syd_fraction(useful_life, year, total_years) ==
    RDiv(R(useful_life - year + 1), R(total_years))

RECURSIVE syd_loop(_, _, _, _, _, _, _)
syd_loop(year, useful_life, cost, residual_value, total_years, accumulated_depreciation, schedule) ==
    IF year > useful_life
    THEN schedule
    ELSE LET fraction == syd_fraction(useful_life, year, total_years)
             depreciation_expense == RMul(RSub(cost, residual_value), fraction)
             acc == RAdd(accumulated_depreciation, depreciation_expense)
             book_value == RSub(cost, acc)
         IN  syd_loop(year + 1, useful_life, cost, residual_value, total_years, acc,
                      Append(schedule, Record(year, depreciation_expense, acc, book_value)))

sum_of_years_digits_depreciation(cost, residual_value, useful_life) ==
    Return(syd_loop(1, useful_life, cost, residual_value, sum_range(useful_life), Zero, <<>>))

----------------------------------------------------------------------------
(* MACRS calculator *)

\* The default table [20, 32, 19.2, 11.52, 11.52, 5.76]
DefaultMacrsPercentage ==
    << R(20), R(32), Norm(96, 5), Norm(288, 25), Norm(288, 25), Norm(144, 25) >>

\* A book value without the floor at 0.
macrs_book_value_unfloored(cost, accumulated_depreciation) ==
    RSub(cost, accumulated_depreciation)

\* max(cost - accumulated_depreciation, 0)
macrs_book_value(cost, accumulated_depreciation) ==
    RMax(RSub(cost, accumulated_depreciation), Zero)

RECURSIVE macrs_loop(_, _, _, _, _)
macrs_loop(year, macrs_percentage, cost, accumulated_depreciation, schedule) ==
    IF year > Len(macrs_percentage)
    THEN schedule
    ELSE LET depreciation_expense == RMul(cost, RDiv(macrs_percentage[year], R(100)))
             acc == RAdd(accumulated_depreciation, depreciation_expense)
             book_value == macrs_book_value(cost, acc)
         IN  macrs_loop(year + 1, macrs_percentage, cost, acc,
                        Append(schedule, Record(year, depreciation_expense, acc, book_value)))

macrs_depreciation(cost, macrs_percentage) ==
    Return(macrs_loop(1, macrs_percentage, cost, Zero, <<>>))

----------------------------------------------------------------------------
(* Schedule dispatcher *)

\* d[k] = v on a dict
SetKey(d, k, v) == (k :> v) @@ d

\* [{'Year': year, 'Depreciation Expense': annual_depreciation} for year in ...]
bare_records(annual_depreciation, useful_life) ==
    [year \in 1..useful_life |->
        [Year |-> year, DepreciationExpense |-> annual_depreciation]]

\* A normalisation that takes the book value from the year's expense alone.
RECURSIVE normalize_loop_expense_only(_, _, _, _)
normalize_loop_expense_only(i, schedule, cost, accumulated_depreciation) ==
    IF i > Len(schedule)
    THEN schedule
    ELSE LET acc == RAdd(accumulated_depreciation, schedule[i].DepreciationExpense)
         IN  normalize_loop_expense_only(i + 1,
                 [schedule EXCEPT ![i] =
                     SetKey(SetKey(@, "AccumulatedDepreciation", acc),
                            "BookValue", RSub(cost, schedule[i].DepreciationExpense))],
                 cost, acc)

\* if method == 'straight_line': for year_data in schedule: ...
RECURSIVE normalize_loop(_, _, _, _)
normalize_loop(i, schedule, cost, accumulated_depreciation) ==
    IF i > Len(schedule)
    THEN schedule
    ELSE LET acc == RAdd(accumulated_depreciation, schedule[i].DepreciationExpense)
         IN  normalize_loop(i + 1,
                 [schedule EXCEPT ![i] =
                     SetKey(SetKey(@, "AccumulatedDepreciation", acc),
                            "BookValue", RSub(cost, acc))],
                 cost, acc)

dispatch_straight_line(cost, residual_value, useful_life) ==
    LET annual == straight_line_depreciation(cost, residual_value, useful_life)
    IN  IF annual.exc # NoExc
        THEN Raise(annual.exc)
        ELSE Return(normalize_loop(1, bare_records(annual.ret[1], useful_life), cost, Zero))

dispatch_declining_balance(cost, residual_value, useful_life, factor) ==
    declining_balance_depreciation(cost, residual_value, useful_life,
        IF ~TruthyNum(factor) THEN R(2) ELSE factor[1])

dispatch_units_of_production(cost, residual_value, total_units, units_used) ==
    IF TruthyNum(total_units) /\ TruthyList(units_used)
    THEN units_of_production_depreciation(cost, residual_value, total_units[1], units_used[1])
    ELSE Raise(InvalidInput)

\* A dispatcher whose last branch computes straight-line instead of raising.
generate_depreciation_schedule_no_else(method, cost, residual_value, useful_life, factor, total_units, units_used) ==
    IF method = "declining_balance"
    THEN dispatch_declining_balance(cost, residual_value, useful_life, factor)
    ELSE IF method = "units_of_production"
    THEN dispatch_units_of_production(cost, residual_value, total_units, units_used)
    ELSE dispatch_straight_line(cost, residual_value, useful_life)

generate_depreciation_schedule(method, cost, residual_value, useful_life, factor, total_units, units_used) ==
    IF method = "straight_line"
    THEN dispatch_straight_line(cost, residual_value, useful_life)
    ELSE IF method = "declining_balance"
    THEN dispatch_declining_balance(cost, residual_value, useful_life, factor)
    ELSE IF method = "units_of_production"
    THEN dispatch_units_of_production(cost, residual_value, total_units, units_used)
    ELSE Raise(InvalidMethod)

----------------------------------------------------------------------------
(* Post-processors: each mutates the schedule in place and returns it *)

\* for i in range(1, len(depreciation_schedule)): ...  (i is 0-based there)
RECURSIVE cascade_loop(_, _)
cascade_loop(i, schedule) ==
    IF i > Len(schedule)
    THEN schedule
    ELSE cascade_loop(i + 1,
            [schedule EXCEPT
                ![i].AccumulatedDepreciation =
                    RAdd(schedule[i - 1].AccumulatedDepreciation, schedule[i].DepreciationExpense),
                ![i].BookValue =
                    RSub(schedule[i - 1].BookValue, schedule[i].DepreciationExpense)])

partial_year_depreciation(depreciation_schedule, acquisition_month) ==
    IF depreciation_schedule = <<>>
    THEN Raise(IndexError)
    ELSE LET monthly_depreciation ==
                 RDiv(depreciation_schedule[1].DepreciationExpense, R(12))
             months_depreciated == 12 - acquisition_month + 1
             adjusted_first_year_depreciation ==
                 RMul(monthly_depreciation, R(months_depreciated))
             s1 == [depreciation_schedule EXCEPT
                       ![1].DepreciationExpense = adjusted_first_year_depreciation]
             s2 == [s1 EXCEPT
                       ![1].BookValue =
                           RSub(@, RSub(adjusted_first_year_depreciation,
                                        s1[1].DepreciationExpense))]
         IN  Return(cascade_loop(2, s2))

\* An overlay that adds to a Tax Savings already present.
tax_savings_accumulating(depreciation_schedule, tax_rate) ==
    Return([i \in 1..Len(depreciation_schedule) |->
        LET year_data == depreciation_schedule[i]
            prior == IF "TaxSavings" \in DOMAIN year_data THEN year_data.TaxSavings ELSE Zero
        IN  SetKey(year_data, "TaxSavings",
                   RAdd(prior, RMul(year_data.DepreciationExpense, tax_rate)))])

tax_savings_from_depreciation(depreciation_schedule, tax_rate) ==
    Return([i \in 1..Len(depreciation_schedule) |->
        LET year_data == depreciation_schedule[i]
        IN  SetKey(year_data, "TaxSavings",
                   RMul(year_data.DepreciationExpense, tax_rate))])

----------------------------------------------------------------------------
(* Inputs *)

\* cost is a positive number; residual_value may exceed it (nothing enforces
\* residual_value <= cost)
Costs == {R(100), R(10000)}

Residuals == {R(0), R(100), R(1000)}

Lives == 0..MaxLife

Factors == {R(-1), R(1), R(2), R(3)}

FactorOpts == {None, Some(Zero), Some(R(3))}

Methods == ValidMethods \cup {"sum_of_years_digits", "Straight_Line"}

TotalUnits == {Zero, R(4)}

TotalUnitsOpts == {None} \cup {Some(t) : t \in TotalUnits}

\* Usage of 2, 1, 0, 2, 1, 0, ... units per period
UnitsUsedLists == {[i \in 1..k |-> R((2 * i) % 3)] : k \in 0..MaxPeriods}

UnitsUsedOpts == {None} \cup {Some(u) : u \in UnitsUsedLists}

\* The default table, tables of 60, 50, 60, ... percent (more than 100 in
\* all from two entries on), and a table with a negative percentage.
MacrsTables ==
    {DefaultMacrsPercentage, << R(120), R(-50) >>}
    \cup {[i \in 1..k |-> IF i % 2 = 1 THEN R(60) ELSE R(50)] : k \in 0..MaxTable}

Months == {1, 7, 12}

TaxRates == {Norm(1, 4), Norm(1, 10)}

\* MACRS is also run on a fully written-off basis of 0.
MacrsCosts == Costs \cup {Zero}

----------------------------------------------------------------------------
(* The caller's state *)

VARIABLES
    pc,         \* "idle" before the call, "called" after it
    call,       \* the calculator call made: function and arguments
    result,     \* what that call did: [exc, ret]
    schedule,   \* the caller's schedule object, as the post-processors left it
    post,       \* the post-processor calls made on it, in order
    postExc,    \* the exception of the last post-processor call, or NoExc
    before      \* the schedule as it was before the last post-processor call

vars == << pc, call, result, schedule, post, postExc, before >>

Args(fn, method, cost, residual_value, useful_life, factor, total_units, units_used, macrs_percentage) ==
    [fn |-> fn, method |-> method, cost |-> cost, residual_value |-> residual_value,
     useful_life |-> useful_life, factor |-> factor, total_units |-> total_units,
     units_used |-> units_used, macrs_percentage |-> macrs_percentage]

Init ==
    /\ pc = "idle"
    /\ call = Args("", "", Zero, Zero, 0, None, None, None, None)
    /\ result = Raise(NoExc)
    /\ schedule = <<>>
    /\ post = <<>>
    /\ postExc = NoExc
    /\ before = <<>>

\* The caller makes the call c and keeps what it returns.
Called(c, r) ==
    /\ pc' = "called"
    /\ call' = c
    /\ result' = r
    /\ schedule' = IF r.ret = None THEN <<>> ELSE r.ret[1]
    /\ UNCHANGED << post, postExc, before >>

CallGenerateStraightLineSchedule ==
    /\ pc = "idle"
    /\ \E cost \in Costs, residual_value \in Residuals, useful_life \in Lives :
        Called(Args("generate_straight_line_schedule", "", cost, residual_value,
                    useful_life, None, None, None, None),
               generate_straight_line_schedule(cost, residual_value, useful_life))

CallDecliningBalance ==
    /\ pc = "idle"
    /\ \E cost \in Costs, residual_value \in Residuals, useful_life \in Lives,
       factor \in Factors :
        Called(Args("declining_balance_depreciation", "", cost, residual_value,
                    useful_life, Some(factor), None, None, None),
               declining_balance_depreciation(cost, residual_value, useful_life, factor))

CallUnitsOfProduction ==
    /\ pc = "idle"
    /\ \E cost \in Costs, residual_value \in Residuals, total_units \in TotalUnits,
       units_used \in UnitsUsedLists :
        Called(Args("units_of_production_depreciation", "", cost, residual_value,
                    0, None, Some(total_units), Some(units_used), None),
               units_of_production_depreciation(cost, residual_value, total_units, units_used))

CallSumOfYearsDigits ==
    /\ pc = "idle"
    /\ \E cost \in Costs, residual_value \in Residuals, useful_life \in Lives :
        Called(Args("sum_of_years_digits_depreciation", "", cost, residual_value,
                    useful_life, None, None, None, None),
               sum_of_years_digits_depreciation(cost, residual_value, useful_life))

CallMacrs ==
    /\ pc = "idle"
    /\ \E cost \in MacrsCosts, macrs_percentage \in MacrsTables :
        Called(Args("macrs_depreciation", "", cost, Zero, 0, None, None, None,
                    Some(macrs_percentage)),
               macrs_depreciation(cost, macrs_percentage))

CallGenerateDepreciationSchedule ==
    /\ pc = "idle"
    /\ \E method \in Methods, cost \in Costs, residual_value \in Residuals,
       useful_life \in Lives, factor \in FactorOpts,
       total_units \in TotalUnitsOpts, units_used \in UnitsUsedOpts :
        Called(Args("generate_depreciation_schedule", method, cost, residual_value,
                    useful_life, factor, total_units, units_used, None),
               generate_depreciation_schedule(method, cost, residual_value, useful_life,
                                              factor, total_units, units_used))

\* The caller holds a schedule and may run one more post-processor on it.
CanPostProcess ==
    /\ pc = "called"
    /\ result.ret # None
    /\ Len(post) < MaxPost

\* The caller runs the post-processor call p, with outcome r, on its schedule.
PostProcessed(p, r) ==
    /\ post' = Append(post, p)
    /\ postExc' = r.exc
    /\ before' = schedule
    /\ schedule' = IF r.ret = None THEN schedule ELSE r.ret[1]
    /\ UNCHANGED << pc, call, result >>

PartialYear ==
    /\ CanPostProcess
    /\ \E acquisition_month \in Months :
        PostProcessed([fn |-> "partial_year_depreciation",
                       acquisition_month |-> acquisition_month, tax_rate |-> Zero],
                      partial_year_depreciation(schedule, acquisition_month))

TaxSavings ==
    /\ CanPostProcess
    /\ \E tax_rate \in TaxRates :
        PostProcessed([fn |-> "tax_savings_from_depreciation",
                       acquisition_month |-> 0, tax_rate |-> tax_rate],
                      tax_savings_from_depreciation(schedule, tax_rate))

Next ==
    \/ CallGenerateStraightLineSchedule
    \/ CallDecliningBalance
    \/ CallUnitsOfProduction
    \/ CallSumOfYearsDigits
    \/ CallMacrs
    \/ CallGenerateDepreciationSchedule
    \/ PartialYear
    \/ TaxSavings

Spec == Init /\ [][Next]_vars

----------------------------------------------------------------------------
(* Vocabulary of the properties *)

\* What the calculator call returned (only where result.ret # None).
Returned == result.ret[1]

Dispatched(method) ==
    /\ pc = "called"
    /\ call.fn = "generate_depreciation_schedule"
    /\ call.method = method

DirectCall(fn) == pc = "called" /\ call.fn = fn

\* The record invariant of a schedule s for an asset of the given cost.
RecordInvariant(s, cost) ==
    \A y \in 1..Len(s) :
        /\ s[y].AccumulatedDepreciation =
               RAdd(IF y = 1 THEN Zero ELSE s[y - 1].AccumulatedDepreciation,
                    s[y].DepreciationExpense)
        /\ s[y].BookValue = RSub(cost, s[y].AccumulatedDepreciation)

\* The record invariant with the book value floored at 0.
FlooredRecordInvariant(s, cost) ==
    \A y \in 1..Len(s) :
        /\ s[y].AccumulatedDepreciation =
               RAdd(IF y = 1 THEN Zero ELSE s[y - 1].AccumulatedDepreciation,
                    s[y].DepreciationExpense)
        /\ s[y].BookValue = RMax(RSub(cost, s[y].AccumulatedDepreciation), Zero)

RECURSIVE SumOver(_, _)
SumOver(f, k) == IF k = 0 THEN Zero ELSE RAdd(f[k], SumOver(f, k - 1))

----------------------------------------------------------------------------
(* C1: declining balance stays at or above the residual value *)

\* The factor the declining-balance calculator ran with.
DBFactor ==
    IF call.fn = "generate_depreciation_schedule" /\ ~TruthyNum(call.factor)
    THEN R(2)
    ELSE call.factor[1]

C1_Applies ==
    /\ DirectCall("declining_balance_depreciation") \/ Dispatched("declining_balance")
    /\ RLe(Zero, call.residual_value)
    /\ RLe(call.residual_value, call.cost)
    /\ call.useful_life >= 1
    /\ RLt(Zero, DBFactor)

\* C1: for declining balance with 0 <= residual_value <= cost, useful_life >= 1
\* and factor > 0, every record has Book Value >= residual_value, and after a
\* record with Book Value = residual_value every later Depreciation Expense is
\* 0; 10000/1000/5 with factor 2 gives year 1 expense 4000, book value 6000,
\* and a final book value of 1000.
C1_DecliningBalanceFloor ==
    C1_Applies =>
        /\ result.ret # None
        /\ \A y \in 1..Len(Returned) :
            /\ RLe(call.residual_value, Returned[y].BookValue)
            /\ Returned[y].BookValue = call.residual_value =>
                   \A z \in (y + 1)..Len(Returned) :
                       Returned[z].DepreciationExpense = Zero
        /\ (call.cost = R(10000) /\ call.residual_value = R(1000)
              /\ call.useful_life = 5 /\ DBFactor = R(2)) =>
               /\ Returned[1].DepreciationExpense = R(4000)
               /\ Returned[1].BookValue = R(6000)
               /\ Returned[5].BookValue = R(1000)

\* A schedule that was clamped at a positive residual value before its last year.
C1_Witness ==
    /\ C1_Applies
    /\ RLt(Zero, call.residual_value)
    /\ \E y \in 1..(Len(Returned) - 1) :
        /\ Returned[y].BookValue = call.residual_value
        /\ RLt(Zero, Returned[y].DepreciationExpense)
        /\ y > 1

----------------------------------------------------------------------------
(* C2: an unknown method *)

\* C2: the dispatcher called with a method outside the three valid ones raises
\* the invalid-method error, whose message names the three valid methods, and
\* returns no schedule, whatever the other arguments are.
C2_InvalidMethod ==
    (pc = "called" /\ call.fn = "generate_depreciation_schedule"
        /\ call.method \notin ValidMethods) =>
        /\ result.exc = InvalidMethod
        /\ result.exc.names = {"straight_line", "declining_balance", "units_of_production"}
        /\ result.ret = None
        /\ schedule = <<>>

\* An unknown method together with arguments that are degenerate for every method.
C2_Witness ==
    /\ Dispatched("sum_of_years_digits")
    /\ call.useful_life = 0
    /\ call.total_units = Some(Zero)
    /\ call.units_used = None
    /\ result.exc = InvalidMethod

----------------------------------------------------------------------------
(* C3: units of production through the dispatcher *)

C3_Absent == call.total_units = None \/ call.units_used = None

\* C3 as stated: with total_units or units_used absent the dispatcher fails with
\* InvalidInput and no record; with both supplied it returns one record per
\* entry of units_used.
C3_AsStated ==
    Dispatched("units_of_production") =>
        /\ C3_Absent => (result.exc = InvalidInput /\ result.ret = None)
        /\ ~C3_Absent =>
               (result.ret # None /\ Len(Returned) = Len(call.units_used[1]))

\* C3 amended: with total_units or units_used absent, or total_units 0, or
\* units_used empty, the dispatcher fails with InvalidInput and no record; with
\* a non-zero total_units and a non-empty units_used it returns one record per
\* entry of units_used.
C3_UnitsOfProductionInputs ==
    Dispatched("units_of_production") =>
        IF TruthyNum(call.total_units) /\ TruthyList(call.units_used)
        THEN /\ result.exc = NoExc
             /\ result.ret # None
             /\ Len(Returned) = Len(call.units_used[1])
             /\ \A y \in 1..Len(Returned) : Returned[y].Year = y
        ELSE /\ result.exc = InvalidInput
             /\ result.ret = None
             /\ schedule = <<>>

\* A units-of-production schedule of two records was returned.
C3_Witness ==
    /\ Dispatched("units_of_production")
    /\ result.ret # None
    /\ Len(call.units_used[1]) = 2
    /\ Len(Returned) = 2

----------------------------------------------------------------------------
(* C4: degenerate numeric input *)

C4_Degenerate ==
    \/ (Dispatched("straight_line") \/ Dispatched("declining_balance"))
          /\ call.useful_life = 0
    \/ Dispatched("units_of_production") /\ call.total_units = Some(Zero)

\* C4: generating a schedule with useful_life = 0 (straight line, declining
\* balance) or total_units = 0 (units of production) fails with InvalidInput:
\* no division fault and no schedule, not even an empty one.
C4_DegenerateGuarded ==
    C4_Degenerate =>
        /\ result.exc = InvalidInput
        /\ result.exc # ZeroDivisionError
        /\ result.ret = None

----------------------------------------------------------------------------
(* C5: the record invariant of the calculators *)

IsMacrs == DirectCall("macrs_depreciation")

\* C5 as stated: every schedule a calculator returns satisfies
\* Accumulated[y] = Accumulated[y-1] + Expense[y] (Accumulated[0] = 0) and
\* Book Value[y] = cost - Accumulated[y].
C5_AsStated ==
    (pc = "called" /\ result.ret # None) => RecordInvariant(Returned, call.cost)

\* C5 amended: every schedule a calculator returns satisfies
\* Accumulated[y] = Accumulated[y-1] + Expense[y] (Accumulated[0] = 0), with
\* Book Value[y] = cost - Accumulated[y] for every calculator but MACRS and
\* Book Value[y] = max(cost - Accumulated[y], 0) for MACRS.
C5_RecordInvariant ==
    (pc = "called" /\ result.ret # None) =>
        IF IsMacrs
        THEN FlooredRecordInvariant(Returned, call.cost)
        ELSE RecordInvariant(Returned, call.cost)

\* A MACRS schedule whose floored book value differs from cost - accumulated.
C5_Witness ==
    /\ IsMacrs
    /\ Len(Returned) >= 2
    /\ FlooredRecordInvariant(Returned, call.cost)
    /\ ~RecordInvariant(Returned, call.cost)

----------------------------------------------------------------------------
(* C6: the two straight-line generators *)

C6_Applies ==
    /\ DirectCall("generate_straight_line_schedule") \/ Dispatched("straight_line")
    /\ call.useful_life >= 1

\* The schedule the other straight-line generator returns for the same asset.
C6_Other ==
    IF call.fn = "generate_straight_line_schedule"
    THEN generate_depreciation_schedule("straight_line", call.cost, call.residual_value,
                                        call.useful_life, None, None, None)
    ELSE generate_straight_line_schedule(call.cost, call.residual_value, call.useful_life)

\* C6: for useful_life >= 1, generate_straight_line_schedule and the dispatcher
\* with 'straight_line' return the same schedule: useful_life records, Years
\* 1..useful_life, every Depreciation Expense (cost - residual_value)/useful_life,
\* and in the last record Accumulated Depreciation = cost - residual_value and
\* Book Value = residual_value; 10000/1000/5 gives 1800 and 8200 in year 1 and
\* 9000 and 1000 in year 5.
C6_StraightLine ==
    C6_Applies =>
        /\ result.ret # None
        /\ result = C6_Other
        /\ Len(Returned) = call.useful_life
        /\ \A y \in 1..Len(Returned) :
            /\ Returned[y].Year = y
            /\ RMul(Returned[y].DepreciationExpense, R(call.useful_life))
                   = RSub(call.cost, call.residual_value)
            /\ Returned[y].DepreciationExpense = Returned[1].DepreciationExpense
        /\ Returned[call.useful_life].AccumulatedDepreciation
               = RSub(call.cost, call.residual_value)
        /\ Returned[call.useful_life].BookValue = call.residual_value
        /\ (call.cost = R(10000) /\ call.residual_value = R(1000) /\ call.useful_life = 5) =>
               /\ Returned[1].DepreciationExpense = R(1800)
               /\ Returned[1].BookValue = R(8200)
               /\ Returned[5].AccumulatedDepreciation = R(9000)
               /\ Returned[5].BookValue = R(1000)

\* The dispatcher returned the straight-line schedule of 10000/1000/5.
C6_Witness ==
    /\ Dispatched("straight_line")
    /\ call.cost = R(10000) /\ call.residual_value = R(1000) /\ call.useful_life = 5
    /\ result.ret # None
    /\ Len(Returned) = 5
    /\ Returned[2].BookValue = R(6400)

----------------------------------------------------------------------------
(* C7: the tax-savings overlay applied twice *)

\* The last two post-processor calls were the overlay with one tax rate, and
\* both ran on a schedule with records.
C7_AppliedTwice ==
    /\ Len(post) >= 2
    /\ post[Len(post)].fn = "tax_savings_from_depreciation"
    /\ post[Len(post) - 1].fn = "tax_savings_from_depreciation"
    /\ post[Len(post)].tax_rate = post[Len(post) - 1].tax_rate

\* C7 as stated: the second application doubles the Tax Savings of every record.
C7_AsStated ==
    C7_AppliedTwice =>
        \A i \in 1..Len(schedule) :
            schedule[i].TaxSavings = RMul(R(2), before[i].TaxSavings)

\* C7 amended: applying the overlay twice with the same tax_rate leaves every
\* record as one application left it, with Tax Savings = Depreciation Expense *
\* tax_rate (the overlay is idempotent).
C7_TaxSavingsIdempotent ==
    C7_AppliedTwice =>
        /\ schedule = before
        /\ \A i \in 1..Len(schedule) :
            /\ schedule[i].TaxSavings = before[i].TaxSavings
            /\ schedule[i].TaxSavings =
                   RMul(schedule[i].DepreciationExpense, post[Len(post)].tax_rate)

\* The overlay ran twice on a schedule whose first record has non-zero savings.
C7_Witness ==
    /\ C7_AppliedTwice
    /\ Len(schedule) >= 1
    /\ before[1].TaxSavings # Zero
    /\ schedule[1].TaxSavings = before[1].TaxSavings

----------------------------------------------------------------------------
(* C8: sum of the years' digits *)

C8_Applies ==
    /\ DirectCall("sum_of_years_digits_depreciation")
    /\ call.useful_life >= 1

\* The yearly fractions of the call.
C8_Fractions ==
    [year \in 1..call.useful_life |->
        syd_fraction(call.useful_life, year, sum_range(call.useful_life))]

\* C8: for useful_life >= 1 the yearly fractions sum to 1, the last record's
\* Accumulated Depreciation is cost - residual_value, and the first year's
\* fraction is the largest (and so is its expense when cost > residual_value).
C8_SumOfYearsDigits ==
    C8_Applies =>
        /\ result.ret # None
        /\ Len(Returned) = call.useful_life
        /\ SumOver(C8_Fractions, call.useful_life) = R(1)
        /\ \A y \in 1..call.useful_life :
            /\ Returned[y].DepreciationExpense =
                   RMul(RSub(call.cost, call.residual_value), C8_Fractions[y])
            /\ RLe(C8_Fractions[y], C8_Fractions[1])
            /\ y > 1 => RLt(C8_Fractions[y], C8_Fractions[1])
            /\ RLt(call.residual_value, call.cost) =>
                   RLe(Returned[y].DepreciationExpense, Returned[1].DepreciationExpense)
        /\ Returned[call.useful_life].AccumulatedDepreciation
               = RSub(call.cost, call.residual_value)

\* A sum-of-years-digits schedule of three years with a front-loaded expense.
C8_Witness ==
    /\ C8_Applies
    /\ call.useful_life = 3
    /\ call.cost = R(10000) /\ call.residual_value = R(1000)
    /\ Returned[1].DepreciationExpense = R(4500)
    /\ Returned[3].DepreciationExpense = R(1500)

----------------------------------------------------------------------------
(* C9: MACRS book value *)

C9_Applies ==
    /\ IsMacrs
    /\ RLe(Zero, call.cost)
    /\ \A i \in 1..Len(call.macrs_percentage[1]) :
           RLe(Zero, call.macrs_percentage[1][i])

\* C9: for MACRS with cost >= 0 and non-negative percentages (also when they
\* sum to more than 100), Book Value never increases from one year to the next
\* and is never negative.
C9_MacrsBookValue ==
    C9_Applies =>
        /\ result.ret # None
        /\ Len(Returned) = Len(call.macrs_percentage[1])
        /\ \A y \in 1..Len(Returned) :
            /\ RLe(Zero, Returned[y].BookValue)
            /\ RLe(Returned[y].BookValue,
                   IF y = 1 THEN call.cost ELSE Returned[y - 1].BookValue)

\* A table summing to more than 100 drove the accumulated depreciation of a
\* positive cost above the cost, and the book value stopped at 0.
C9_Witness ==
    /\ C9_Applies
    /\ RLt(Zero, call.cost)
    /\ Len(Returned) >= 2
    /\ RLt(call.cost, Returned[Len(Returned)].AccumulatedDepreciation)
    /\ Returned[Len(Returned)].BookValue = Zero

----------------------------------------------------------------------------
(* C10: partial-year proration *)

\* Partial-year proration was the one post-processor run, on a schedule with
\* records that satisfied the record invariant.
C10_Applies ==
    /\ pc = "called"
    /\ Len(post) = 1
    /\ post[1].fn = "partial_year_depreciation"
    /\ post[1].acquisition_month \in 1..12
    /\ before = Returned
    /\ before # <<>>
    /\ RecordInvariant(before, call.cost)

\* C10: after partial_year_depreciation the first year's expense is the
\* original one times (12 - acquisition_month + 1)/12, later expenses are
\* unchanged, and the record invariant holds for every year, year 1 included.
C10_ProrationKeepsInvariant ==
    C10_Applies =>
        /\ postExc = NoExc
        /\ Len(schedule) = Len(before)
        /\ schedule[1].DepreciationExpense =
               RMul(before[1].DepreciationExpense,
                    RDiv(R(12 - post[1].acquisition_month + 1), R(12)))
        /\ \A y \in 2..Len(schedule) :
               schedule[y].DepreciationExpense = before[y].DepreciationExpense
        /\ RecordInvariant(schedule, call.cost)

=============================================================================
